---- MODULE Spec2Model ----
(***************************************************************************)
(* Model of go-mysql-server's cross join plan node (sql/plan/cross_join.go) *)
(* and of the scalar functions IsBinary, Substring and Year.                *)
(*                                                                          *)
(* Three specifications share the module:                                   *)
(*   Spec      the CrossJoin node and its crossJoinIterator                 *)
(*   SpecEval  Eval of IsBinary, Substring and Year on one row              *)
(*   SpecTree  TransformUp and Resolved on expression and plan trees        *)
(***************************************************************************)
EXTENDS Integers, Sequences, FiniteSets, TLC

VARIABLES
    scen,   \* the children of the CrossJoin: their scripts and Resolved()
    pc,     \* the caller's position: "init", "open", "failed", "closed"
            \* ("idle" where no join is under execution)
    it,     \* the crossJoinIterator's fields rightRows, index, leftRow
    li,     \* the left child iterator
    ri,     \* the right child iterator
    heap,   \* backing arrays of the row slices
    out,    \* history: what each Next() call returned
    ret,    \* history: the error RowIter() or Close() returned
    ev,     \* the results of the children of the expression under
            \* evaluation (str is also the Child of a unary expression)
    evOut,  \* what Eval returned
    tree,   \* the tree under TransformUp / Resolved
    trOut   \* what TransformUp / Resolved returned

joinVars == <<scen, pc, it, li, ri, heap, out, ret>>
evalVars == <<ev, evOut>>
treeVars == <<tree, trOut>>
vars == <<scen, pc, it, li, ri, heap, out, ret, ev, evOut, tree, trOut>>

(***************************************************************************)
(* Bounds of the model.                                                    *)
(***************************************************************************)
MaxLeft == 2
MaxRight == 2
\* Next() calls the caller makes at most: enough for every pair, the
\* exhausted outcome and one failure of each child.
MaxCalls == MaxLeft * MaxRight + 3

(***************************************************************************)
(* Errors.  "nil" is Go's nil error, EOF is io.EOF.                        *)
(***************************************************************************)
nil == "nil"
EOF == "EOF"

(***************************************************************************)
(* Child iterators (sql.RowIter of the children, outside this package).    *)
(* A script is the sequence of outcomes of the child's Next(): a row id    *)
(* k > 0, or 0 for a failure; past its end the child is exhausted.         *)
(***************************************************************************)
RECURSIVE InsertAt(_, _, _)
InsertAt(s, k, x) ==
    IF k = 1 THEN <<x>> \o s ELSE <<Head(s)>> \o InsertAt(Tail(s), k - 1, x)

\* The rows 1..m, m <= max, with at most one failure among the outcomes.
Scripts(max) ==
    { [i \in 1..m |-> i] : m \in 0..max }
    \cup UNION { { InsertAt([i \in 1..m |-> i], k, 0) : k \in 1..(m + 1) } : m \in 0..max }

\* sql.RowIter.Next of a child: a row, the child's failure e, or io.EOF.
IterNext(script, pos, e) ==
    IF pos > Len(script) THEN [err |-> EOF, id |-> 0, pos |-> pos]
    ELSE IF script[pos] = 0 THEN [err |-> e, id |-> 0, pos |-> pos + 1]
    ELSE [err |-> nil, id |-> script[pos], pos |-> pos + 1]

HasRows(script) == \E k \in 1..Len(script) : script[k] > 0
RowCount(script) == Cardinality({ k \in 1..Len(script) : script[k] > 0 })
NoFailure(script) == \A k \in 1..Len(script) : script[k] > 0

\* The k-th row of the left child and of the right child, one column each.
LeftVal(k) == <<k>>
RightVal(k) == <<10 + k>>

(***************************************************************************)
(* Row slices.  A sql.Row is a Go slice: a backing array and a length.     *)
(***************************************************************************)
NilRow == [arr |-> 0, len |-> 0]

Read(h, s) == IF s.arr = 0 THEN <<>> ELSE SubSeq(h[s.arr], 1, s.len)
Cap(h, s) == IF s.arr = 0 THEN 0 ELSE Len(h[s.arr])

\* Go's append(s, elems...): in place when the capacity allows, else a copy.
append(h, s, elems) ==
    IF Len(elems) = 0 THEN [heap |-> h, row |-> s]
    ELSE IF s.len + Len(elems) <= Cap(h, s)
    THEN [heap |-> [h EXCEPT ![s.arr] =
                      [k \in 1..Len(h[s.arr]) |->
                          IF k > s.len /\ k <= s.len + Len(elems)
                          THEN elems[k - s.len] ELSE h[s.arr][k]]],
          row |-> [arr |-> s.arr, len |-> s.len + Len(elems)]]
    ELSE [heap |-> Append(h, Read(h, s) \o elems),
          row |-> [arr |-> Len(h) + 1, len |-> s.len + Len(elems)]]

\* The row a child's Next() hands out: row k of the left child lives in
\* backing array k; a failed Next() hands out the nil row.
LeftSlice(id) == IF id = 0 THEN NilRow ELSE [arr |-> id, len |-> 1]

(***************************************************************************)
(* CrossJoin.Resolved                                                      *)
(***************************************************************************)
CrossJoinResolved(leftResolved, rightResolved) == leftResolved /\ rightResolved

(***************************************************************************)
(* crossJoinIterator.fillRows: drains the right child into rightRows until *)
(* its Next() returns an error (io.EOF included), and returns that error.  *)
(***************************************************************************)
RECURSIVE fillRows(_, _, _)
fillRows(script, rows, pos) ==
    LET r == IterNext(script, pos, "errR")
    IN  IF r.err # nil
        THEN [rows |-> rows, pos |-> r.pos, err |-> r.err]
        ELSE fillRows(script, Append(rows, RightVal(r.id)), r.pos)

(***************************************************************************)
(* crossJoinIterator.Next                                                  *)
(***************************************************************************)
\* line 77: if err := i.fillRows(); err != io.EOF
FillFailedSwallowed(err) == FALSE

FillFailed(err) == err # EOF

\* line 88: if err != nil
LeftFailedIgnored(err) == FALSE

LeftFailed(err) == err # nil

\* lines 97-101: advance the index; past the last right row, start over
\* and drop the left row.
AdvanceCursorKeepLeft(i) ==
    IF i.index + 1 >= Len(i.rightRows)
    THEN [i EXCEPT !.index = 0]
    ELSE [i EXCEPT !.index = i.index + 1]

AdvanceCursor(i) ==
    IF i.index + 1 >= Len(i.rightRows)
    THEN [i EXCEPT !.index = 0, !.leftRow = NilRow]
    ELSE [i EXCEPT !.index = i.index + 1]

\* lines 96-103, with a left row held.
EmitRow(i, l, r, h) ==
    LET a == append(h, i.leftRow, i.rightRows[i.index + 1])
    IN  [it |-> AdvanceCursor(i), li |-> l, ri |-> r, heap |-> a.heap,
         err |-> nil, row |-> a.row]

\* lines 86-103.
PullLeft(i, l, r, h) ==
    IF i.leftRow = NilRow
    THEN LET lr == IterNext(scen.leftScript, l.pos, "errL")
             l1 == [l EXCEPT !.pos = lr.pos, !.eof = l.eof \/ lr.err = EOF]
         IN  IF LeftFailed(lr.err)
             THEN [it |-> i, li |-> l1, ri |-> r, heap |-> h,
                   err |-> lr.err, row |-> NilRow]
             ELSE EmitRow([i EXCEPT !.index = 0, !.leftRow = LeftSlice(lr.id)],
                          l1, r, h)
    ELSE EmitRow(i, l, r, h)

\* lines 75-104.
crossJoinNext(i, l, r, h) ==
    IF Len(i.rightRows) = 0
    THEN LET f == fillRows(scen.rightScript, i.rightRows, r.pos)
             i1 == [i EXCEPT !.rightRows = f.rows]
             r1 == [r EXCEPT !.pos = f.pos, !.eof = r.eof \/ f.err = EOF]
         IN  IF FillFailed(f.err)
             THEN [it |-> i1, li |-> l, ri |-> r1, heap |-> h,
                   err |-> f.err, row |-> NilRow]
             ELSE IF Len(i1.rightRows) = 0
             THEN [it |-> i1, li |-> l, ri |-> r1, heap |-> h,
                   err |-> EOF, row |-> NilRow]
             ELSE PullLeft(i1, l, r1, h)
    ELSE PullLeft(i, l, r, h)

(***************************************************************************)
(* crossJoinIterator.Close: what it does given the results lerr and rerr   *)
(* of the children's Close().                                              *)
(***************************************************************************)
crossJoinCloseEarlyReturn(lerr, rerr) ==
    IF lerr # nil
    THEN [riClose |-> FALSE, err |-> lerr]
    ELSE [riClose |-> TRUE, err |-> rerr]

crossJoinClose(lerr, rerr) ==
    IF lerr # nil
    THEN [riClose |-> TRUE, err |-> lerr]
    ELSE [riClose |-> TRUE, err |-> rerr]

(***************************************************************************)
(* The cross join: initial state and the caller's operations.              *)
(***************************************************************************)
NewIter == [pos |-> 1, open |-> FALSE, eof |-> FALSE,
            closeCalls |-> 0, closeErr |-> nil]

JoinIdle ==
    /\ scen = [leftScript |-> <<>>, rightScript |-> <<>>,
               leftResolved |-> TRUE, rightResolved |-> TRUE, leftSpare |-> 0]
    /\ pc = "idle"
    /\ it = [rightRows |-> <<>>, index |-> 0, leftRow |-> NilRow]
    /\ li = NewIter
    /\ ri = NewIter
    /\ heap = <<>>
    /\ out = <<>>
    /\ ret = nil

\* A child whose Resolved() is false produces no rows.
ChildObeysContract(script, resolved) == HasRows(script) => resolved

\* NewCrossJoin over two children, before RowIter() is called.
JoinInit ==
    /\ scen \in { s \in [leftScript : Scripts(MaxLeft),
                         rightScript : Scripts(MaxRight),
                         leftResolved : BOOLEAN, rightResolved : BOOLEAN,
                         leftSpare : 0..1] :
                     /\ ChildObeysContract(s.leftScript, s.leftResolved)
                     /\ ChildObeysContract(s.rightScript, s.rightResolved) }
    /\ pc = "init"
    /\ it = [rightRows |-> <<>>, index |-> 0, leftRow |-> NilRow]
    /\ li = NewIter
    /\ ri = NewIter
    /\ heap = [k \in 1..RowCount(scen.leftScript) |->
                  LeftVal(k) \o [j \in 1..scen.leftSpare |-> 0]]
    /\ out = <<>>
    /\ ret = nil

\* CrossJoin.RowIter, lines 35-50; lerr and rerr are the results of the
\* children's RowIter().
RowIter ==
    /\ pc = "init"
    /\ \E lerr \in {nil, "rowIterL"}, rerr \in {nil, "rowIterR"} :
          IF lerr # nil
          THEN /\ pc' = "failed"
               /\ ret' = lerr
               /\ UNCHANGED <<li, ri>>
          ELSE IF rerr # nil
          THEN /\ li' = [li EXCEPT !.open = TRUE]
               /\ pc' = "failed"
               /\ ret' = rerr
               /\ UNCHANGED ri
          ELSE /\ li' = [li EXCEPT !.open = TRUE]
               /\ ri' = [ri EXCEPT !.open = TRUE]
               /\ pc' = "open"
               /\ ret' = nil
    /\ UNCHANGED <<scen, it, heap, out>>
    /\ UNCHANGED <<evalVars, treeVars>>

\* One Next() call of the caller on the crossJoinIterator.
CallNext ==
    /\ pc = "open"
    /\ Len(out) < MaxCalls
    /\ LET n == crossJoinNext(it, li, ri, heap)
       IN  /\ it' = n.it
           /\ li' = n.li
           /\ ri' = n.ri
           /\ heap' = n.heap
           /\ out' = Append(out, [err |-> n.err, row |-> n.row,
                                  val |-> Read(n.heap, n.row),
                                  drained |-> n.ri.eof,
                                  leftEOF |-> n.li.eof,
                                  buffered |-> Len(n.it.rightRows)])
    /\ UNCHANGED <<scen, pc, ret>>
    /\ UNCHANGED <<evalVars, treeVars>>

\* One Close() call of the caller on the crossJoinIterator.
Close ==
    /\ pc = "open"
    /\ \E lerr \in {nil, "closeL"}, rerr \in {nil, "closeR"} :
          LET c == crossJoinClose(lerr, rerr)
          IN  /\ li' = [li EXCEPT !.closeCalls = @ + 1, !.closeErr = lerr]
              /\ ri' = IF c.riClose
                       THEN [ri EXCEPT !.closeCalls = @ + 1, !.closeErr = rerr]
                       ELSE ri
              /\ ret' = c.err
    /\ pc' = "closed"
    /\ UNCHANGED <<scen, it, heap, out>>
    /\ UNCHANGED <<evalVars, treeVars>>

(***************************************************************************)
(* Values and expression evaluation.                                       *)
(*                                                                         *)
(* A value is nil, a string or a []byte (s: its characters, one rune per   *)
(* byte), an int64 (n), a bool (n = 0 or 1), a time (n: its year) or an    *)
(* int32 (n).  int64 is modelled with IntBits bits, two's complement.      *)
(***************************************************************************)
IntBits == 4
MaxText == 3

MinInt64 == -(2 ^ (IntBits - 1))
MaxInt64 == 2 ^ (IntBits - 1) - 1
Int64 == MinInt64..MaxInt64

\* int64 arithmetic wraps around.
Wrap(x) == ((x - MinInt64) % (2 ^ IntBits)) + MinInt64

NilV == [t |-> "nil", s |-> <<>>, n |-> 0]
StringV(s) == [t |-> "string", s |-> s, n |-> 0]
BytesV(s) == [t |-> "bytes", s |-> s, n |-> 0]
Int64V(n) == [t |-> "int64", s |-> <<>>, n |-> n]
Int32V(n) == [t |-> "int32", s |-> <<>>, n |-> n]
BoolV(b) == [t |-> "bool", s |-> <<>>, n |-> IF b THEN 1 ELSE 0]
TimeV(y) == [t |-> "time", s |-> <<>>, n |-> y]

\* What an Eval returns: (value, nil), (nil, error), or a run-time panic.
Ok(v) == [err |-> nil, v |-> v]
Fail(e) == [err |-> e, v |-> NilV]
Panic == [err |-> "panic", v |-> NilV]

\* sql.Int64.Convert.  What it makes of nil is the type system's choice
\* (onNil): a conversion error, or the integer 0.
Int64Convert(v, onNil) ==
    IF v.t = "int64" THEN Ok(v)
    ELSE IF v.t = "nil" /\ onNil = "zero" THEN Ok(Int64V(0))
    ELSE Fail("convErr")

\* sql.Blob.Convert
BlobConvert(v) ==
    IF v.t \in {"string", "bytes"} THEN Ok(BytesV(v.s)) ELSE Fail("convErr")

\* sql.Date.Convert
DateConvert(v) ==
    IF v.t = "time" THEN Ok(v) ELSE Fail("convErr")

(***************************************************************************)
(* IsBinary                                                                *)
(***************************************************************************)
sniffLen == 8000

\* isBinary: a zero byte among the first sniffLen bytes.
isBinary(data) ==
    LET d == IF Len(data) > sniffLen THEN SubSeq(data, 1, sniffLen) ELSE data
    IN  \E k \in 1..Len(d) : d[k] = 0

IsBinaryEval(child) ==
    IF child.err # nil THEN Fail(child.err)
    ELSE IF child.v = NilV THEN Ok(BoolV(FALSE))
    ELSE LET blob == BlobConvert(child.v)
         IN  IF blob.err # nil THEN Fail(blob.err)
             ELSE Ok(BoolV(isBinary(blob.v.s)))

(***************************************************************************)
(* Year                                                                    *)
(***************************************************************************)
YearEval(child) ==
    IF child.err # nil THEN Fail(child.err)
    ELSE IF child.v = NilV THEN Ok(NilV)
    ELSE LET date == DateConvert(child.v)
         IN  IF date.err # nil THEN Fail(date.err)
             ELSE Ok(Int32V(date.v.n))

(***************************************************************************)
(* Substring                                                               *)
(***************************************************************************)
\* text[lo:hi] of Go: a run-time panic unless 0 <= lo <= hi <= len(text).
Slice(text, lo, hi) ==
    IF lo < 0 \/ hi < lo \/ hi > Len(text) THEN Panic
    ELSE Ok(StringV(SubSeq(text, lo + 1, hi)))

\* lines 148-163.
SubstringOf(text, start, length) ==
    LET runeCount == Len(text)
        startIdx == IF start < 0 THEN Wrap(runeCount + start) ELSE Wrap(start - 1)
    IN  IF startIdx < 0 \/ startIdx >= runeCount \/ length <= 0
        THEN Ok(StringV(<<>>))
        ELSE LET length2 == IF Wrap(startIdx + length) > runeCount
                            THEN Wrap(runeCount - startIdx)
                            ELSE length
             IN  Slice(text, startIdx, Wrap(startIdx + length2))

\* lines 120-146, then SubstringOf.
SubstringArgs(text, e) ==
    IF e.start.err # nil THEN Fail(e.start.err)
    ELSE LET start == Int64Convert(e.start.v, e.onNil)
         IN  IF start.err # nil THEN Fail(start.err)
             ELSE IF e.hasLen
             THEN IF e.len.err # nil THEN Fail(e.len.err)
                  ELSE LET len == Int64Convert(e.len.v, e.onNil)
                       IN  IF len.err # nil THEN Fail(len.err)
                           ELSE SubstringOf(text, start.v.n, len.v.n)
             ELSE SubstringOf(text, start.v.n, Len(text))

\* lines 102-164.
SubstringEval(e) ==
    IF e.str.err # nil THEN Fail(e.str.err)
    ELSE IF e.str.v.t \in {"string", "bytes"} THEN SubstringArgs(e.str.v.s, e)
    ELSE IF e.str.v.t = "nil" THEN Ok(NilV)
    ELSE Fail("ErrInvalidType")

(***************************************************************************)
(* Evaluation of one expression on one row: the results of its children    *)
(* are the inputs.                                                         *)
(***************************************************************************)
Texts == { [k \in 1..c |-> k] : c \in 0..MaxText }

StrResults ==
    { Fail("evalErr"), Ok(NilV), Ok(BoolV(TRUE)), Ok(BytesV(<<1, 0, 2>>)) }
    \cup { Ok(StringV(s)) : s \in Texts }

IntResults ==
    { Fail("evalErr"), Ok(NilV), Ok(StringV(<<1>>)) }
    \cup { Ok(Int64V(n)) : n \in Int64 }

UnaryResults ==
    { Fail("evalErr"), Ok(NilV), Ok(BoolV(TRUE)), Ok(TimeV(2021)),
      Ok(StringV(<<1, 2>>)), Ok(BytesV(<<1, 0, 2>>)), Ok(BytesV(<<1, 2>>)) }

NotEvaluated == [done |-> FALSE, err |-> nil, v |-> NilV]

EvalIdle ==
    /\ ev = [fn |-> "none", str |-> Ok(NilV), start |-> Ok(NilV),
             hasLen |-> FALSE, len |-> Ok(NilV), onNil |-> "error"]
    /\ evOut = NotEvaluated

EvalInit ==
    /\ ev \in [fn : {"substring"}, str : StrResults, start : IntResults,
               hasLen : {TRUE}, len : IntResults, onNil : {"error", "zero"}]
         \cup [fn : {"substring"}, str : StrResults, start : IntResults,
               hasLen : {FALSE}, len : {Ok(NilV)}, onNil : {"error", "zero"}]
         \cup [fn : {"year", "is_binary"}, str : UnaryResults,
               start : {Ok(NilV)}, hasLen : {FALSE}, len : {Ok(NilV)},
               onNil : {"error"}]
    /\ evOut = NotEvaluated

Returned(r) == [done |-> TRUE, err |-> r.err, v |-> r.v]

EvalSubstring ==
    /\ ev.fn = "substring"
    /\ ~evOut.done
    /\ evOut' = Returned(SubstringEval(ev))
    /\ UNCHANGED <<ev, joinVars, treeVars>>

EvalYear ==
    /\ ev.fn = "year"
    /\ ~evOut.done
    /\ evOut' = Returned(YearEval(ev.str))
    /\ UNCHANGED <<ev, joinVars, treeVars>>

EvalIsBinary ==
    /\ ev.fn = "is_binary"
    /\ ~evOut.done
    /\ evOut' = Returned(IsBinaryEval(ev.str))
    /\ UNCHANGED <<ev, joinVars, treeVars>>

(***************************************************************************)
(* Trees.  A node has a variant k, children c and, for a leaf, its own     *)
(* Resolved() r.  Expression variants: "leaf", "is_binary", "year",        *)
(* "substring" (2 or 3 children); plan variants: "table", "cross_join".    *)
(* The rewrite function f handed to TransformUp wraps the node it is given *)
(* in an "f" node, so the result shows every application of f.             *)
(***************************************************************************)
MaxDepth == 3
MaxPlanDepth == 2

Node(k, c, r) == [k |-> k, c |-> c, r |-> r]
NoTree == Node("none", <<>>, TRUE)
f(n) == Node("f", <<n>>, TRUE)

NewIsBinary(e) == Node("is_binary", <<e>>, TRUE)
NewYear(date) == Node("year", <<date>>, TRUE)
\* NewSubstring returns (nil, ErrInvalidArgumentNumber) unless given 2 or 3
\* arguments; its callers here drop the error.
NewSubstring(args) ==
    IF Len(args) \in {2, 3} THEN Node("substring", args, TRUE) ELSE NoTree
NewCrossJoin(left, right) == Node("cross_join", <<left, right>>, TRUE)

ExprLeaves == { Node("leaf", <<>>, r) : r \in BOOLEAN }

RECURSIVE ExprTrees(_)
ExprTrees(d) ==
    IF d = 0 THEN ExprLeaves
    ELSE LET sub == ExprTrees(d - 1)
         IN  ExprLeaves
             \cup { NewIsBinary(e) : e \in sub }
             \cup { NewYear(e) : e \in sub }
             \cup { NewSubstring(<<e, s>>) : e \in sub, s \in ExprLeaves }
             \cup { NewSubstring(<<e, s, l>>) : e \in sub, s \in ExprLeaves, l \in ExprLeaves }

PlanLeaves == { Node("table", <<>>, r) : r \in BOOLEAN }

RECURSIVE PlanTrees(_)
PlanTrees(d) ==
    IF d = 0 THEN PlanLeaves
    ELSE LET sub == PlanTrees(d - 1)
         IN  PlanLeaves \cup { NewCrossJoin(l, r) : l \in sub, r \in sub }

\* TransformUp of each variant.
RECURSIVE TransformUp(_)
IsBinaryTransformUp(ib) == NewIsBinary(TransformUp(ib.c[1]))

YearTransformUp(y) == f(NewYear(TransformUp(y.c[1])))

SubstringTransformUp(s) ==
    IF Len(s.c) = 3
    THEN f(NewSubstring(<<TransformUp(s.c[1]), TransformUp(s.c[2]), TransformUp(s.c[3])>>))
    ELSE f(NewSubstring(<<TransformUp(s.c[1]), TransformUp(s.c[2])>>))

CrossJoinTransformUp(p) ==
    f(NewCrossJoin(TransformUp(p.c[1]), TransformUp(p.c[2])))

LeafTransformUp(n) == f(n)

TransformUp(n) ==
    CASE n.k = "is_binary" -> IsBinaryTransformUp(n)
      [] n.k = "year" -> YearTransformUp(n)
      [] n.k = "substring" -> SubstringTransformUp(n)
      [] n.k = "cross_join" -> CrossJoinTransformUp(n)
      [] OTHER -> LeafTransformUp(n)

\* Resolved of each variant.
RECURSIVE Resolved(_)
SubstringResolved(s) == TRUE

UnaryResolved(e) == Resolved(e.c[1])

Resolved(n) ==
    CASE n.k = "substring" -> SubstringResolved(n)
      [] n.k \in {"is_binary", "year"} -> UnaryResolved(n)
      [] n.k = "cross_join" -> CrossJoinResolved(Resolved(n.c[1]), Resolved(n.c[2]))
      [] OTHER -> n.r

NotCalled == [op |-> "none", node |-> NoTree, resolved |-> FALSE]

TreeIdle ==
    /\ tree = NoTree
    /\ trOut = NotCalled

TreeInit ==
    /\ tree \in ExprTrees(MaxDepth) \cup PlanTrees(MaxPlanDepth)
    /\ trOut = NotCalled

CallTransformUp ==
    /\ tree # NoTree
    /\ trOut.op = "none"
    /\ trOut' = [op |-> "TransformUp", node |-> TransformUp(tree), resolved |-> FALSE]
    /\ UNCHANGED <<tree, joinVars, evalVars>>

CallResolved ==
    /\ tree # NoTree
    /\ trOut.op = "none"
    /\ trOut' = [op |-> "Resolved", node |-> NoTree, resolved |-> Resolved(tree)]
    /\ UNCHANGED <<tree, joinVars, evalVars>>

(***************************************************************************)
(* Specifications.                                                         *)
(***************************************************************************)
Init == JoinInit /\ EvalIdle /\ TreeIdle
Next == RowIter \/ CallNext \/ Close
Spec == Init /\ [][Next]_vars

InitEval == JoinIdle /\ EvalInit /\ TreeIdle
NextEval == EvalSubstring \/ EvalYear \/ EvalIsBinary
SpecEval == InitEval /\ [][NextEval]_vars

InitTree == JoinIdle /\ EvalIdle /\ TreeInit
NextTree == CallTransformUp \/ CallResolved
SpecTree == InitTree /\ [][NextTree]_vars

(***************************************************************************)
(* Properties of the cross join (specification Spec).                      *)
(***************************************************************************)
\* The row the k-th Next() call is to return when the right child has n rows.
ExpectedRow(k, n) == LeftVal(((k - 1) \div n) + 1) \o RightVal(((k - 1) % n) + 1)

C2_CloseBoth ==
    pc = "closed" =>
        /\ li.closeCalls = 1
        /\ ri.closeCalls = 1
        /\ ret = IF li.closeErr # nil THEN li.closeErr ELSE ri.closeErr

\* C2 witness: the left Close failed, the right Close ran and succeeded,
\* and the left's error was returned.
C2_Witness ==
    /\ pc = "closed"
    /\ li.closeErr = "closeL"
    /\ ri.closeCalls = 1
    /\ ri.closeErr = nil
    /\ ret = "closeL"

\* C5 as stated: Next() returns io.EOF only after the left child's Next()
\* has returned io.EOF.
C5_EOFOnlyAfterLeftExhausted ==
    \A k \in 1..Len(out) : out[k].err = EOF => out[k].leftEOF

\* C5 amended: Next() returns io.EOF only after the left child's Next() has
\* returned io.EOF, or after the right child's Next() has returned io.EOF
\* with no right row buffered.
C5_EOFOnlyAfterLeftOrEmptyRight ==
    \A k \in 1..Len(out) :
        out[k].err = EOF =>
            \/ out[k].leftEOF
            \/ out[k].drained /\ out[k].buffered = 0

\* C5 witness: an empty right side and a non-empty left side: Next() returns
\* io.EOF and the left child has not been asked for a row.
C5_Witness ==
    /\ scen.rightScript = <<>>
    /\ HasRows(scen.leftScript)
    /\ Len(out) >= 1
    /\ out[1].err = EOF
    /\ ~out[1].leftEOF
    /\ li.pos = 1

\* C6: once the caller has received RowIter()'s error or has called Close(),
\* every child iterator the CrossJoin obtained has been closed.
C6_OpenedChildrenClosed ==
    pc \in {"failed", "closed"} =>
        /\ li.open => li.closeCalls >= 1
        /\ ri.open => ri.closeCalls >= 1

C10_NoRowFromPartialBuffer ==
    \A k \in 1..Len(out) : out[k].err = nil => out[k].drained

(***************************************************************************)
(* Properties of expression evaluation (specification SpecEval).           *)
(***************************************************************************)
\* The substring of the specification, on unbounded integers.
ExpectedSubstring(text, start, length) ==
    LET c == Len(text)
        startIndex == IF start < 0 THEN c + start ELSE start - 1
        last == IF startIndex + length > c THEN c ELSE startIndex + length
    IN  IF startIndex < 0 \/ startIndex >= c \/ length <= 0
        THEN <<>>
        ELSE SubSeq(text, startIndex + 1, last)

IsText(r) == r.err = nil /\ r.v.t \in {"string", "bytes"}
IsInt(r) == r.err = nil /\ r.v.t = "int64"
IsNil(r) == r.err = nil /\ r.v.t = "nil"

\* C4: for a text and any int64 start and length, Substring.Eval returns,
\* without failing, the empty text for a start index out of range or a
\* length <= 0, and else the codepoints from the start index on, the length
\* clamped to the remaining codepoints.
C4_SubstringTotal ==
    (/\ evOut.done
     /\ ev.fn = "substring"
     /\ IsText(ev.str)
     /\ IsInt(ev.start)
     /\ ev.hasLen
     /\ IsInt(ev.len)) =>
        /\ evOut.err = nil
        /\ evOut.v = StringV(ExpectedSubstring(ev.str.v.s, ev.start.v.n, ev.len.v.n))

\* C9: when no child fails and str, start or (when present) length of a
\* Substring evaluates to nil, Eval returns nil with no error; so does Year
\* for a nil date; IsBinary returns false for a nil child.
C9_NullPropagation ==
    evOut.done =>
        /\ (/\ ev.fn = "substring"
            /\ IsText(ev.str) \/ IsNil(ev.str)
            /\ IsInt(ev.start) \/ IsNil(ev.start)
            /\ ev.hasLen => (IsInt(ev.len) \/ IsNil(ev.len))
            /\ IsNil(ev.str) \/ IsNil(ev.start) \/ (ev.hasLen /\ IsNil(ev.len)))
           => (evOut.err = nil /\ evOut.v = NilV)
        /\ (ev.fn = "year" /\ IsNil(ev.str))
           => (evOut.err = nil /\ evOut.v = NilV)
        /\ (ev.fn = "is_binary" /\ IsNil(ev.str))
           => (evOut.err = nil /\ evOut.v = BoolV(FALSE))

(***************************************************************************)
(* Properties of the trees (specification SpecTree).                       *)
(***************************************************************************)
\* The rewrite of the protocol: the node rebuilt, same variant, from its
\* rewritten children, and f applied to it.
RECURSIVE PostOrder(_)
PostOrder(n) == f(Node(n.k, [i \in 1..Len(n.c) |-> PostOrder(n.c[i])], n.r))

\* C3: TransformUp(f) of every variant rebuilds the node from its
\* transformed children and returns f of the rebuilt node, so that f is
\* applied once to every node of the tree, the root included.
C3_TransformUpAppliesF ==
    trOut.op = "TransformUp" => trOut.node = PostOrder(tree)

\* C8: Substring.Resolved() is true if and only if every child of the
\* Substring is resolved.
C8_SubstringResolvedIffChildren ==
    (trOut.op = "Resolved" /\ tree.k = "substring") =>
        (trOut.resolved <=> \A i \in 1..Len(tree.c) : Resolved(tree.c[i]))

====
